---- MODULE Spec2Model ----
(***************************************************************************)
(* Verification development for the slit tracer (pypit/traceslits.py) and  *)
(* the Keck/DEIMOS optical model (pypeit/spectrographs/keck_deimos.py).    *)
(*                                                                         *)
(* Conventions                                                             *)
(*   - A Python value that may be None is a sequence of length 0 (None)    *)
(*     or 1 (the value): None == <<>>, Some(x) == <<x>>.                   *)
(*   - The edge image edgearr is flattened to a sequence of NPix pixels;   *)
(*     every operation of the tracer on it is elementwise or a global      *)
(*     min/max, so the image shape plays no role.                          *)
(*   - lcen/rcen (numpy shape [nrow, nslit]) are sequences of columns,     *)
(*     one column per slit, each column a function from row to position.   *)
(*   - Routines of the package that the tracer only wraps (artraceslits,   *)
(*     arpixels, msgs, opticalmodel) are modelled from the specification.  *)
(***************************************************************************)
EXTENDS Integers, Sequences, FiniteSets, TLC

\* ------------------------------------------------------------------ bounds
NRows == 2      \* rows of the trace image (spectral pixels)
NCols == 3      \* columns of the trace image (detector width)
NPix == 3       \* pixels of the flattened edge image
EdNum == 3      \* ednum, the offset between the edge-ID ranges
MaxSlits == 2   \* slits the synchronizer may return

VARIABLES
    \* --- TraceSlits object
    settings,     \* self.settings['trace']['slits'] (the keys the class reads)
    pc,           \* position of run(): the next phase, or idle/done/error
    args,         \* arguments of the run() in flight
    steps,        \* self.steps
    edgearr,      \* self.edgearr
    edgearrcp,    \* self.edgearrcp
    siglev,       \* self.siglev
    tc_dict,      \* self.tc_dict
    user_set,     \* self.user_set
    cnt,          \* self.lcnt, self.rcnt
    lrminx,       \* self.lmin, self.lmax, self.rmin, self.rmax
    coeff,        \* self.lcoeff, self.rcoeff
    cent,         \* self.lcent, self.rcent
    lcen,         \* self.lcen
    rcen,         \* self.rcen
    extrapord,    \* self.extrapord
    msglog,       \* messages handed to msgs.info / msgs.error
    ret,          \* what run() returned
    input_binbpx, \* self.input_binbpx
    disk,         \* the artifacts root.fits and root.json
    loaded,       \* the outcome of TraceSlits.from_files(root)
    \* --- KeckDEIMOSSpectrograph object
    slitmask,     \* self.slitmask
    grating,      \* self.grating
    optical_model,\* self.optical_model
    detector_map, \* self.detector_map
    built,        \* constructor calls so far: DEIMOSOpticalModel, DEIMOSDetectorMap
    last,         \* the last call on the spectrograph and its outcome
    \* --- DEIMOSCameraDistortion object
    dist_x,       \* argument of the last remove_distortion call
    dist_y,       \* argument of the last apply_distortion call
    dist_out,     \* its outcome
    \* --- a mask_to_pixel_coordinates call in flight on the spectrograph
    inflight,     \* its position, the grating it checked, the grating it traced with
    lock,         \* the callers serialize their calls on the object
    \* --- functions applied on their own
    remap,        \* reset_edgearr_ednum: the map before, the map now, the calls
    \* --- the settings dictionaries of the module and of two tracers
    dicts,        \* the dict objects by identity, and who changed one last
    \* --- the table of the frames' header values
    fitstbl,      \* the files read, their rows, and whether add_to_fitstbl ran
    \* --- read_deimos
    mosaic        \* postpix, det, and the sections of the chips placed so far

traceVars == <<settings, pc, args, steps, edgearr, edgearrcp, siglev, tc_dict,
               user_set, cnt, lrminx, coeff, cent, lcen, rcen, extrapord,
               msglog, ret>>

persistVars == <<input_binbpx, disk, loaded>>
opticVars == <<slitmask, grating, optical_model, detector_map, built, last>>
distVars == <<dist_x, dist_y, dist_out>>

concVars == <<inflight, lock>>
pureVars == <<remap, dicts, fitstbl, mosaic>>
extraVars == <<concVars, pureVars>>

vars == <<traceVars, persistVars, opticVars, distVars, extraVars>>
\* what the tracer's phases leave alone
otherVars == <<persistVars, opticVars, distVars, extraVars>>

\* ----------------------------------------------------------------- helpers
None == <<>>
Some(x) == <<x>>
IsNone(o) == Len(o) = 0
IsSome(o) == Len(o) = 1
Val(o) == o[1]

Rows == 1..NRows
Pix == 1..NPix

MaxOf(S) == CHOOSE m \in S : \A x \in S : x <= m
MinOf(S) == CHOOSE m \in S : \A x \in S : m <= x
Abs(x) == IF x < 0 THEN -x ELSE x
Smaller(a, b) == IF a < b THEN a ELSE b

Values(arr) == {arr[p] : p \in DOMAIN arr}
NegVals(arr) == {v \in Values(arr) : v < 0}
PosVals(arr) == {v \in Values(arr) : v > 0}
ZeroPix(arr) == {p \in DOMAIN arr : arr[p] = 0}
Rank(p, S) == Cardinality({q \in S : q <= p})

\* ---------------------------------------------------------------- settings
\* default_settings, and the values of the keys that run() branches on.
\* fracignore is a rational <<numerator, denominator>> in [0,1).
PcaTypes == {"order", "pixel", "none", "pca"}
FracIgnores == {<<1, 100>>, <<3, 4>>}
Pads == {0, 1}
SettingsSet == [single : BOOLEAN, pcatype : PcaTypes,
                fracignore : FracIgnores, maxgap : BOOLEAN, pad : Pads]
default_settings == [single |-> FALSE, pcatype |-> "pixel",
                     fracignore |-> <<1, 100>>, maxgap |-> FALSE, pad |-> 0]

\* ------------------------------------------------------ slit-edge curves
Const(v) == [r \in Rows |-> v]
Tilt(v) == [r \in Rows |-> v + r - 1]
ZeroFirst(v) == [r \in Rows |-> IF r = 1 THEN 0 ELSE v]
Slit(l, r) == [l |-> l, r |-> r]

\* Curves with a valid fit in every row and rcen > lcen in every row, in the
\* order of the list below.
ValidShapes ==
    { Slit(Const(1), Const(2)),                   \* one pixel wide
      Slit(Const(1), Const(3)),                   \* two pixels wide
      Slit(Tilt(NCols), Tilt(2*NCols)),           \* tilted, first row on the detector
      Slit(Const(NCols + 1), Const(2*NCols + 1)), \* beyond the right boundary
      Slit(Const(-NCols - 1), Const(-1)) }        \* left of pixel 0
\* A curve whose edges have no valid fit (value 0) in the first row.
InvalidShapes ==
    { Slit(ZeroFirst(1), ZeroFirst(NCols + 1)) }
SyncShapes == ValidShapes \cup InvalidShapes
\* The synchronizer returns the slits in a fixed order of their curves.
ShapeKey(s) == <<s.l[NRows], s.r[NRows], s.l[1]>>
KeyLeq(a, b) ==
    \/ a[1] < b[1]
    \/ a[1] = b[1] /\ a[2] < b[2]
    \/ a[1] = b[1] /\ a[2] = b[2] /\ a[3] <= b[3]
Ordered(ss) ==
    \A i \in DOMAIN ss : \A j \in DOMAIN ss :
        i < j => KeyLeq(ShapeKey(ss[i]), ShapeKey(ss[j]))

SeqsUpTo(S, n) == UNION {[1..k -> S] : k \in 0..n}

\* ------------------------------------------- wrapped routines (artraceslits)
\* edgearr_from_binarr: a raw detection, each pixel no edge, a left edge or a
\* right edge, with magnitude 2*ednum.  The order in which the image is
\* flattened is immaterial, so the left edges come first and the right last.
RawMaps ==
    {m \in [Pix -> {-2*EdNum, 0, 2*EdNum}] :
        \A p \in Pix : \A q \in Pix : p < q => m[p] <= m[q]}
\* edgearr_from_user: one left and one right edge from the user's pair.
edgearr_from_user ==
    [p \in Pix |-> IF p = 1 THEN -2*EdNum ELSE IF p = NPix THEN 2*EdNum ELSE 0]

\* new_match_edges: the left (right) edge pixels are grouped into lc (rc)
\* fragments, numbered upwards from 2*ednum; the counts are returned.
FragCounts(S) == IF S = {} THEN {0} ELSE 1..Cardinality(S)
new_match_edges(arr, lc, rc) ==
    LET L == {p \in Pix : arr[p] < 0}
        R == {p \in Pix : arr[p] > 0}
    IN  [p \in Pix |->
            IF arr[p] < 0 THEN -(2*EdNum + Smaller(Rank(p, L), lc) - 1)
            ELSE IF arr[p] > 0 THEN 2*EdNum + Smaller(Rank(p, R), rc) - 1
            ELSE 0]

\* edgearr_add_left_right: a bracket edge is added on a free pixel for a side
\* that has no edge at all.
edgearr_add_left_right(arr, lc, rc) ==
    LET addL == lc = 0 /\ ZeroPix(arr) # {}
        a1 == IF addL THEN [arr EXCEPT ![MinOf(ZeroPix(arr))] = -2*EdNum] ELSE arr
        addR == rc = 0 /\ ZeroPix(a1) # {}
        a2 == IF addR THEN [a1 EXCEPT ![MaxOf(ZeroPix(a1))] = 2*EdNum] ELSE a1
    IN  [arr |-> a2, lcnt |-> IF addL THEN 1 ELSE lc, rcnt |-> IF addR THEN 1 ELSE rc]

\* assign_slits(lor): fragment 2*ednum + i of side lor becomes the finalized
\* edge 1 + i of that side.
assign_slits(arr, lor) ==
    [p \in Pix |-> IF arr[p] * lor >= 2*EdNum
                   THEN lor * (arr[p] * lor - 2*EdNum + 1) ELSE arr[p]]

\* edgearr_close_slits: the sides saved in edgearrcp are given back.
edgearr_close_slits(arr, cp) ==
    [p \in Pix |-> IF cp[p] < 0 THEN -Abs(arr[p]) ELSE arr[p]]

\* edgearr_final_left_right: the map is kept, the edges are counted again.
CountIds(S) == Cardinality(S)

\* edgearr_mslit_sync: a synthetic partner is inserted on a free pixel for the
\* side with fewer edges.
NewId(S) == IF S = {} THEN EdNum ELSE MaxOf(S) + 1
edgearr_mslit_sync(arr) ==
    LET nl == Cardinality(NegVals(arr))
        nr == Cardinality(PosVals(arr))
        z == ZeroPix(arr)
    IN  IF z = {} \/ nl = nr THEN arr
        ELSE IF nl > nr THEN [arr EXCEPT ![MaxOf(z)] = NewId(PosVals(arr))]
        ELSE [arr EXCEPT ![MinOf(z)] = -NewId({-v : v \in NegVals(arr)})]

\* add_user_edges: the user's slit is written on free pixels, a left edge and
\* a right edge with new IDs.
add_user_edges(arr) ==
    LET z == ZeroPix(arr)
    IN  IF Cardinality(z) < 2 THEN arr
        ELSE [arr EXCEPT ![MinOf(z)] = -NewId({-v : v \in NegVals(arr)}),
                         ![MaxOf(z)] = NewId(PosVals(arr))]

\* pca_pixel_slit_edges / pca_order_slit_edges: rows without a valid fit are
\* extrapolated; extrapord marks the slits that needed it.
HasZero(col) == \E r \in Rows : col[r] = 0
FillCol(col) ==
    LET ok == {r \in Rows : col[r] # 0}
    IN  [r \in Rows |-> IF col[r] # 0 THEN col[r]
                        ELSE IF ok = {} THEN 1 ELSE col[MinOf(ok)]]
pca_slit_edges(lc, rc) ==
    [lcen |-> [i \in DOMAIN lc |-> FillCol(lc[i])],
     rcen |-> [i \in DOMAIN rc |-> FillCol(rc[i])],
     extrapord |-> [i \in DOMAIN lc |-> HasZero(lc[i]) \/ HasZero(rc[i])]]

\* ------------------------------------------------- TraceSlits (traceslits.py)
\* _assign_edges: a single left (right) fragment is assigned directly.
_assign_edges(arr, lc, rc) ==
    LET a1 == IF lc = 1
              THEN [p \in Pix |-> IF arr[p] <= -2*EdNum THEN -EdNum ELSE arr[p]]
              ELSE assign_slits(arr, -1)
    IN  IF rc = 1
        THEN [p \in Pix |-> IF a1[p] >= 2*EdNum THEN EdNum ELSE a1[p]]
        ELSE assign_slits(a1, 1)

_maxgap_prep_by_range(arr) ==
    LET shift == MaxOf(Values(arr)) - MinOf(Values(arr))
    IN  [p \in Pix |-> IF arr[p] < 0 THEN arr[p] + shift ELSE arr[p]]
\* _maxgap_prep: the left edges are lifted above every value of the map.
_maxgap_prep(arr) ==
    LET shift == 1 + MaxOf(Values(arr)) - MinOf(Values(arr))
    IN  [p \in Pix |-> IF arr[p] < 0 THEN arr[p] + shift ELSE arr[p]]

\* reset_edgearr_ednum
reset_edgearr_ednum(arr) ==
    IF MaxOf(Values(arr)) < EdNum
    THEN [p \in Pix |-> IF arr[p] < 0 THEN arr[p] - (EdNum - 1)
                        ELSE IF arr[p] > 0 THEN arr[p] + (EdNum - 1)
                        ELSE arr[p]]
    ELSE arr

\* _set_lrminx: np.max / np.min of an empty selection raises.
SetLrminxRaises(arr) == NegVals(arr) = {} \/ PosVals(arr) = {}
_set_lrminx(arr) ==
    [lmin |-> -MaxOf(NegVals(arr)), lmax |-> -MinOf(NegVals(arr)),
     rmin |-> MinOf(PosVals(arr)), rmax |-> MaxOf(PosVals(arr))]

_chk_for_longslit_left_only(m) == m.lmax + 1 - m.lmin = 1
\* _chk_for_longslit: one left ID and one right ID.
_chk_for_longslit(m) == (m.lmax + 1 - m.lmin = 1) /\ (m.rmax + 1 - m.rmin = 1)

AllZero(col) == \A r \in Rows : col[r] = 0
PcaKeeps_any(lc, rc, i) == ~AllZero(lc[i]) /\ ~AllZero(rc[i])
\* _pca, the branch without PCA: slits with a zero in lcent or rcent are masked.
PcaKeeps(lc, rc, i) == ~HasZero(lc[i]) /\ ~HasZero(rc[i])
Compact_reversed(cols, keep) ==
    LET ww == {i \in DOMAIN cols : keep[i]}
    IN  [k \in 1..Cardinality(ww) |->
            cols[CHOOSE i \in ww : Rank(i, ww) = Cardinality(ww) + 1 - k]]
Compact(cols, keep) ==
    LET ww == {i \in DOMAIN cols : keep[i]}
    IN  [k \in 1..Cardinality(ww) |-> cols[CHOOSE i \in ww : Rank(i, ww) = k]]
_pca_none(lc, rc) ==
    LET keep == [i \in DOMAIN lc |-> PcaKeeps(lc, rc, i)]
        l == Compact(lc, keep)
    IN  [lcen |-> l, rcen |-> Compact(rc, keep),
         extrapord |-> [i \in DOMAIN l |-> FALSE]]
_pca_default_pixel(type, lc, rc) ==
    IF type = "order" THEN pca_slit_edges(lc, rc)
    ELSE IF type = "none" THEN _pca_none(lc, rc)
    ELSE pca_slit_edges(lc, rc)
\* _pca: 'order' and 'pixel' run the PCA; every other value takes the else branch.
_pca(type, lc, rc) ==
    IF type = "order" THEN pca_slit_edges(lc, rc)
    ELSE IF type = "pixel" THEN pca_slit_edges(lc, rc)
    ELSE _pca_none(lc, rc)

\* _trim_slits
KthSmallest(f, k) ==
    CHOOSE v \in {f[r] : r \in Rows} :
        /\ Cardinality({r \in Rows : f[r] < v}) < k
        /\ Cardinality({r \in Rows : f[r] <= v}) >= k
\* twice np.median over the rows
Median2(f) ==
    IF NRows % 2 = 1 THEN 2 * KthSmallest(f, (NRows + 1) \div 2)
    ELSE KthSmallest(f, NRows \div 2) + KthSmallest(f, NRows \div 2 + 1)
Width(l, r, o) == [row \in Rows |-> r[o][row] - l[o][row]]
\* int(fracignore * mstrace.shape[1])
FracPix(frac) == (frac[1] * NCols) \div frac[2]
OffRight_from_boundary(l, o) == MinOf({l[o][row] : row \in Rows}) >= NCols
OffRight(l, o) == MinOf({l[o][row] : row \in Rows}) > NCols
OffLeft(r, o) == MaxOf({r[o][row] : row \in Rows}) < 0
TooNarrow_flipped(l, r, o, frac) == Median2(Width(l, r, o)) > 2 * FracPix(frac)
TooNarrow(l, r, o, frac) == Median2(Width(l, r, o)) < 2 * FracPix(frac)
TrimMask(l, r, o, frac, usefracpix) ==
    OffRight(l, o) \/ OffLeft(r, o) \/ (usefracpix /\ TooNarrow(l, r, o, frac))
TrimMsgs(l, r, frac, usefracpix) ==
    {<<"off the detector", o>> : o \in {i \in DOMAIN l : OffRight(l, i) \/ OffLeft(r, i)}}
    \cup {<<"less than fracignore", o>> :
             o \in {i \in DOMAIN l : usefracpix /\ TooNarrow(l, r, i, frac)}}
_trim_slits(l, r, frac, usefracpix) ==
    LET wok == [o \in DOMAIN l |-> ~TrimMask(l, r, o, frac, usefracpix)]
    IN  [lcen |-> Compact(l, wok), rcen |-> Compact(r, wok),
         msgs |-> TrimMsgs(l, r, frac, usefracpix)]

\* (rcen - lcen).mean(0).astype(int): the mean width, truncated towards zero
RECURSIVE SumTo(_, _)
SumTo(f, n) == IF n = 0 THEN 0 ELSE f[n] + SumTo(f, n - 1)
TruncDiv(a, b) == IF a >= 0 THEN a \div b ELSE -((-a) \div b)
PixWid(l, r) == [o \in DOMAIN l |-> TruncDiv(SumTo(Width(l, r, o), NRows), NRows)]

\* core_slit_pixels(lcen, rcen, shape, pad): the slits are painted one after
\* the other on an image of zeros; slit o covers, in each row, the pixels
\* strictly between its left edge less the pad and its right edge plus the pad.
Cols == 0..(NCols - 1)
InSlit_inclusive(l, r, pad, o, row, col) ==
    l[o][row] - pad <= col /\ col <= r[o][row] + pad
InSlit(l, r, pad, o, row, col) ==
    l[o][row] - pad < col /\ col < r[o][row] + pad
RECURSIVE paint_slits(_, _, _, _)
paint_slits(l, r, pad, n) ==
    IF n = 0 THEN [row \in Rows |-> [col \in Cols |-> 0]]
    ELSE LET img == paint_slits(l, r, pad, n - 1)
         IN  [row \in Rows |->
                [col \in Cols |->
                    IF InSlit(l, r, pad, n, row, col) THEN n ELSE img[row][col]]]
core_slit_pixels(l, r, pad) == paint_slits(l, r, pad, Len(l))

\* ------------------------------------------------------- TraceSlits.run
ArgSet == [armlsd : BOOLEAN, ignore_orders : BOOLEAN, add_user_slits : BOOLEAN]
Step(name) == steps' = Append(steps, name)

\* The phase run() enters after each call, following its conditions in order.
AfterFinal(a) ==
    IF a.armlsd THEN "_mslit_tcrude"
    ELSE IF a.add_user_slits THEN "add_user_slits"
    ELSE IF a.ignore_orders THEN "_ignore_orders"
    ELSE "_set_lrminx"
AfterSync(a) ==
    IF a.add_user_slits THEN "add_user_slits"
    ELSE IF a.ignore_orders THEN "_ignore_orders"
    ELSE "_set_lrminx"
AfterUser_always_ignore(a) == "_ignore_orders"
AfterUser(a) == IF a.ignore_orders THEN "_ignore_orders" ELSE "_set_lrminx"
AfterClose(uset, a) == IF ~uset THEN "_final_left_right" ELSE AfterFinal(a)
AfterAssign(uset, a) ==
    IF settings.maxgap THEN "_maxgap_close" ELSE AfterClose(uset, a)

TraceInit ==
    /\ settings \in SettingsSet
    /\ pc = "idle"
    /\ args = [armlsd |-> TRUE, ignore_orders |-> FALSE, add_user_slits |-> FALSE]
    /\ steps = <<"make_binarr">>
    /\ edgearr = None /\ edgearrcp = None /\ siglev = None /\ tc_dict = None
    /\ user_set = None /\ cnt = None /\ lrminx = None /\ coeff = [l |-> None, r |-> None]
    /\ cent = None /\ lcen = None /\ rcen = None /\ extrapord = None
    /\ msglog = {} /\ ret = None

\* run(), lines 870-876: the first edge map
Run ==
    /\ UNCHANGED otherVars
    /\ pc = "idle"
    /\ \E a \in ArgSet : args' = a
    /\ IF settings.single
       THEN /\ edgearr' = Some(edgearr_from_user)
            /\ siglev' = None
            /\ Step("_edgearr_single_slit")
            /\ user_set' = Some(TRUE)
       ELSE /\ \E raw \in RawMaps : edgearr' = Some(raw)
            /\ siglev' = Some("siglev")
            /\ Step("_edgearr_from_binarr")
            /\ user_set' = Some(FALSE)
    /\ pc' = "_match_edges"
    /\ UNCHANGED <<settings, edgearrcp, tc_dict, cnt, lrminx, coeff, cent, lcen,
                   rcen, extrapord, msglog, ret>>

\* the sanity check of _match_edges
MatchOverflow_above(lc, rc) == lc > EdNum \/ rc > EdNum
MatchOverflow(lc, rc) == lc >= EdNum \/ rc >= EdNum
_match_edges ==
    /\ UNCHANGED otherVars
    /\ pc = "_match_edges"
    /\ LET arr == Val(edgearr)
       IN  \E lc \in FragCounts({p \in Pix : arr[p] < 0}),
              rc \in FragCounts({p \in Pix : arr[p] > 0}) :
              /\ edgearr' = Some(new_match_edges(arr, lc, rc))
              /\ cnt' = Some([l |-> lc, r |-> rc])
              /\ IF MatchOverflow(lc, rc)
                 THEN /\ msglog' = msglog \cup {<<"error", 0>>}
                      /\ pc' = "fatal"
                      /\ UNCHANGED steps
                 ELSE /\ Step("_match_edges")
                      /\ pc' = "_add_left_right"
                      /\ UNCHANGED msglog
    /\ UNCHANGED <<settings, args, edgearrcp, siglev, tc_dict, user_set, lrminx,
                   coeff, cent, lcen, rcen, extrapord, ret>>

_add_left_right ==
    /\ UNCHANGED otherVars
    /\ pc = "_add_left_right"
    /\ LET out == edgearr_add_left_right(Val(edgearr), Val(cnt).l, Val(cnt).r)
       IN  /\ edgearr' = Some(out.arr)
           /\ cnt' = Some([l |-> out.lcnt, r |-> out.rcnt])
    /\ Step("_add_left_right")
    /\ pc' = IF settings.maxgap THEN "_maxgap_prep" ELSE "_assign_edges"
    /\ UNCHANGED <<settings, args, edgearrcp, siglev, tc_dict, user_set, lrminx,
                   coeff, cent, lcen, rcen, extrapord, msglog, ret>>

MaxgapPrep ==
    /\ UNCHANGED otherVars
    /\ pc = "_maxgap_prep"
    /\ edgearrcp' = edgearr
    /\ edgearr' = Some(_maxgap_prep(Val(edgearr)))
    /\ Step("_maxgap_prep")
    /\ pc' = "_assign_edges"
    /\ UNCHANGED <<settings, args, siglev, tc_dict, user_set, cnt, lrminx, coeff,
                   cent, lcen, rcen, extrapord, msglog, ret>>

AssignEdges ==
    /\ UNCHANGED otherVars
    /\ pc = "_assign_edges"
    /\ edgearr' = Some(_assign_edges(Val(edgearr), Val(cnt).l, Val(cnt).r))
    /\ Step("_assign_edges")
    /\ pc' = AfterAssign(Val(user_set), args)
    /\ UNCHANGED <<settings, args, edgearrcp, siglev, tc_dict, user_set, cnt,
                   lrminx, coeff, cent, lcen, rcen, extrapord, msglog, ret>>

MaxgapClose ==
    /\ UNCHANGED otherVars
    /\ pc = "_maxgap_close"
    /\ edgearr' = Some(edgearr_close_slits(Val(edgearr), Val(edgearrcp)))
    /\ Step("_maxgap_close")
    /\ pc' = AfterClose(Val(user_set), args)
    /\ UNCHANGED <<settings, args, edgearrcp, siglev, tc_dict, user_set, cnt,
                   lrminx, coeff, cent, lcen, rcen, extrapord, msglog, ret>>

FinalLeftRight ==
    /\ UNCHANGED otherVars
    /\ pc = "_final_left_right"
    /\ cnt' = Some([l |-> CountIds(NegVals(Val(edgearr))),
                    r |-> CountIds(PosVals(Val(edgearr)))])
    /\ Step("_final_left_right")
    /\ pc' = AfterFinal(args)
    /\ UNCHANGED <<settings, args, edgearr, edgearrcp, siglev, tc_dict, user_set,
                   lrminx, coeff, cent, lcen, rcen, extrapord, msglog, ret>>

MslitTcrude ==
    /\ UNCHANGED otherVars
    /\ pc = "_mslit_tcrude"
    /\ tc_dict' = Some("tc_dict")
    /\ Step("_mslit_tcrude")
    /\ pc' = "_mslit_sync"
    /\ UNCHANGED <<settings, args, edgearr, edgearrcp, siglev, user_set, cnt,
                   lrminx, coeff, cent, lcen, rcen, extrapord, msglog, ret>>

MslitSync ==
    /\ UNCHANGED otherVars
    /\ pc = "_mslit_sync"
    /\ edgearr' = Some(edgearr_mslit_sync(Val(edgearr)))
    /\ Step("_mslit_sync")
    /\ pc' = AfterSync(args)
    /\ UNCHANGED <<settings, args, edgearrcp, siglev, tc_dict, user_set, cnt,
                   lrminx, coeff, cent, lcen, rcen, extrapord, msglog, ret>>

\* add_user_slits(user_slits), run_to_finish=False
AddUserSlits ==
    /\ UNCHANGED otherVars
    /\ pc = "add_user_slits"
    /\ edgearr' = Some(add_user_edges(reset_edgearr_ednum(Val(edgearr))))
    /\ Step("add_user_slits")
    /\ pc' = AfterUser(args)
    /\ UNCHANGED <<settings, args, edgearrcp, siglev, tc_dict, user_set, cnt,
                   lrminx, coeff, cent, lcen, rcen, extrapord, msglog, ret>>

\* edgearr_ignore_orders: the map is kept; the ID ranges are returned when
\* both sides have an edge.
IgnoreOrders ==
    /\ UNCHANGED otherVars
    /\ pc = "_ignore_orders"
    /\ lrminx' = IF SetLrminxRaises(Val(edgearr)) THEN lrminx
                 ELSE Some(_set_lrminx(Val(edgearr)))
    /\ Step("_ignore_orders")
    /\ pc' = "_set_lrminx"
    /\ UNCHANGED <<settings, args, edgearr, edgearrcp, siglev, tc_dict, user_set,
                   cnt, coeff, cent, lcen, rcen, extrapord, msglog, ret>>

SetLrminx ==
    /\ UNCHANGED otherVars
    /\ pc = "_set_lrminx"
    /\ IF SetLrminxRaises(Val(edgearr))
       THEN pc' = "raised" /\ UNCHANGED lrminx
       ELSE pc' = "_fit_edges_left" /\ lrminx' = Some(_set_lrminx(Val(edgearr)))
    /\ UNCHANGED <<settings, args, steps, edgearr, edgearrcp, siglev, tc_dict,
                   user_set, cnt, coeff, cent, lcen, rcen, extrapord, msglog, ret>>

FitEdgesLeft ==
    /\ UNCHANGED otherVars
    /\ pc = "_fit_edges_left"
    /\ coeff' = [coeff EXCEPT !.l = Some("lcoeff")]
    /\ Step("_fit_edges_left")
    /\ pc' = "_fit_edges_right"
    /\ UNCHANGED <<settings, args, edgearr, edgearrcp, siglev, tc_dict, user_set,
                   cnt, lrminx, cent, lcen, rcen, extrapord, msglog, ret>>

FitEdgesRight ==
    /\ UNCHANGED otherVars
    /\ pc = "_fit_edges_right"
    /\ coeff' = [coeff EXCEPT !.r = Some("rcoeff")]
    /\ Step("_fit_edges_right")
    /\ pc' = "_chk_for_longslit"
    /\ UNCHANGED <<settings, args, edgearr, edgearrcp, siglev, tc_dict, user_set,
                   cnt, lrminx, cent, lcen, rcen, extrapord, msglog, ret>>

\* run(), lines 928-929: the longslit shortcut; lcen/rcen are the two fits
\* evaluated in every row.
ChkForLongslit ==
    /\ UNCHANGED otherVars
    /\ pc = "_chk_for_longslit"
    /\ IF _chk_for_longslit(Val(lrminx))
       THEN /\ \E s \in ValidShapes :
                 /\ lcen' = Some(<<s.l>>)
                 /\ rcen' = Some(<<s.r>>)
            /\ extrapord' = Some(<<FALSE>>)
            /\ pc' = "pixels"
       ELSE /\ pc' = "_synchronize"
            /\ UNCHANGED <<lcen, rcen, extrapord>>
    /\ UNCHANGED <<settings, args, steps, edgearr, edgearrcp, siglev, tc_dict,
                   user_set, cnt, lrminx, coeff, cent, msglog, ret>>

\* synchronize_edges: one centroid curve per edge of every paired slit.
Synchronize ==
    /\ UNCHANGED otherVars
    /\ pc = "_synchronize"
    /\ \E ss \in {x \in SeqsUpTo(SyncShapes, MaxSlits) : Ordered(x)} :
          cent' = Some([l |-> [i \in DOMAIN ss |-> ss[i].l],
                        r |-> [i \in DOMAIN ss |-> ss[i].r]])
    /\ Step("_synchronize")
    /\ pc' = "_pca"
    /\ UNCHANGED <<settings, args, edgearr, edgearrcp, siglev, tc_dict, user_set,
                   cnt, lrminx, coeff, lcen, rcen, extrapord, msglog, ret>>

Pca ==
    /\ UNCHANGED otherVars
    /\ pc = "_pca"
    /\ LET out == _pca(settings.pcatype, Val(cent).l, Val(cent).r)
       IN  /\ lcen' = Some(out.lcen)
           /\ rcen' = Some(out.rcen)
           /\ extrapord' = Some(out.extrapord)
    /\ steps' = IF settings.pcatype = "order" THEN Append(steps, "_pca_order_slit_edges")
                ELSE IF settings.pcatype = "pixel" THEN Append(steps, "_pca_pixel_slit_edges")
                ELSE steps
    /\ pc' = "_trim_slits"
    /\ UNCHANGED <<settings, args, edgearr, edgearrcp, siglev, tc_dict, user_set,
                   cnt, lrminx, coeff, cent, msglog, ret>>

\* run(), line 941: _trim_slits(usefracpix=armlsd)
TrimSlits ==
    /\ UNCHANGED otherVars
    /\ pc = "_trim_slits"
    /\ LET out == _trim_slits(Val(lcen), Val(rcen), settings.fracignore, args.armlsd)
       IN  /\ lcen' = Some(out.lcen)
           /\ rcen' = Some(out.rcen)
           /\ msglog' = msglog \cup out.msgs
    /\ Step("_trim_slits")
    /\ pc' = "pixels"
    /\ UNCHANGED <<settings, args, edgearr, edgearrcp, siglev, tc_dict, user_set,
                   cnt, lrminx, coeff, cent, extrapord, ret>>

\* run(), lines 943-962: the pixel traces and the returned dictionary
Pixels ==
    /\ UNCHANGED otherVars
    /\ pc = "pixels"
    /\ ret' = Some([lcen |-> Val(lcen), rcen |-> Val(rcen),
                    pixwid |-> PixWid(Val(lcen), Val(rcen)),
                    extrapord |-> Val(extrapord),
                    slitpix |-> core_slit_pixels(Val(lcen), Val(rcen), settings.pad)])
    /\ pc' = "done"
    /\ UNCHANGED <<settings, args, steps, edgearr, edgearrcp, siglev, tc_dict,
                   user_set, cnt, lrminx, coeff, cent, lcen, rcen, extrapord, msglog>>

TraceNext ==
    \/ Run \/ _match_edges \/ _add_left_right \/ MaxgapPrep \/ AssignEdges
    \/ MaxgapClose \/ FinalLeftRight \/ MslitTcrude \/ MslitSync \/ AddUserSlits
    \/ IgnoreOrders \/ SetLrminx \/ FitEdgesLeft \/ FitEdgesRight
    \/ ChkForLongslit \/ Synchronize \/ Pca \/ TrimSlits \/ Pixels

\* ------------------------------ KeckDEIMOSSpectrograph (keck_deimos.py)
\* A header string is a sequence of characters.
Mirror == <<"M", "i", "r", "r", "o", "r">>
\* A calibration file: the header fields get_grating reads, and the slit table
\* (mask = 0: the file has no BluSlits extension).  Tilts are whole degrees.
File(slider, name, mask) ==
    [GRATEPOS |-> slider, GRATENAM |-> name,
     G3TLTWAV |-> 8500, G3TLTVAL |-> 20, G4TLTWAV |-> 7000, G4TLTVAL |-> 25,
     mask |-> mask]
Files ==
    { File(3, <<"1", "2", "0", "0", "G">>, 1),
      File(4, <<"6", "0", "0", "Z", "D">>, 1),
      File(3, <<"8", "3", "0", "G">>, 0),
      File(4, <<"9", "0", "0", "Z", "D">>, 0),
      File(3, <<"1", "0", "0", "0", "G">>, 1),
      File(4, Mirror, 0),
      File(2, Mirror, 1),
      File(2, <<"8", "3", "0", "G">>, 1),
      File(5, <<"9", "0", "0", "Z", "D">>, 1) }

IsDigit(c) == c \in {"0", "1", "2", "3", "4", "5", "6", "7", "8", "9"}
DigitVal(c) ==
    CASE c = "0" -> 0 [] c = "1" -> 1 [] c = "2" -> 2 [] c = "3" -> 3 [] c = "4" -> 4
      [] c = "5" -> 5 [] c = "6" -> 6 [] c = "7" -> 7 [] c = "8" -> 8 [] c = "9" -> 9
Contains(name, sub) ==
    \E k \in 1..(Len(name) - Len(sub) + 1) : SubSeq(name, k, k + Len(sub) - 1) = sub
\* re.sub('[^0-9]', '', name)
Digits(name) == SelectSeq(name, IsDigit)
\* float(digits), times 100
RECURSIVE ToNumber(_)
ToNumber(d) ==
    IF d = <<>> THEN 0 ELSE 10 * ToNumber(SubSeq(d, 1, Len(d) - 1)) + DigitVal(d[Len(d)])
\* get_grating, lines 480-491: the ruling, in hundredths of a line per mm
Ruling(name) ==
    IF Contains(name, Mirror) THEN 0
    ELSE LET ruling == 100 * ToNumber(Digits(name))
         IN  IF Abs(ruling - 120000) < 50 THEN 120006
             ELSE IF Abs(ruling - 83100) < 200 THEN 83190
             ELSE ruling
RulingRaises(name) == ~Contains(name, Mirror) /\ Digits(name) = <<>>

\* _grating_orientation; roll and yaw in 1e-3 deg, tilt in 1e-5 deg.
\* orientation_coeffs[slider][_ruling]: <<roll, yaw, 1e5 * c2, 1e3 * c3>>
CalibratedRulings == {600, 831, 900, 1200}
RulingKey(r) ==
    CASE r = 600 -> "600" [] r = 831 -> "831" [] r = 900 -> "900"
      [] r = 1200 -> "1200" [] OTHER -> "other"
orientation_coeffs ==
    [s \in {3, 4} |->
        IF s = 3
        THEN [k \in {"600", "831", "900", "1200", "other"} |->
                CASE k = "600"  -> <<145, -8, 56, -182>>
                  [] k = "831"  -> <<143, 0, 56, -182>>
                  [] k = "900"  -> <<141, 0, 56, -134>>
                  [] k = "1200" -> <<145, 55, 56, -181>>
                  [] OTHER      -> <<145, 0, 56, -182>>]
        ELSE [k \in {"600", "831", "900", "1200", "other"} |->
                CASE k = "600"  -> <<-65, 63, 69, -298>>
                  [] k = "831"  -> <<-34, 60, 69, -196>>
                  [] k = "900"  -> <<-64, 83, 69, -277>>
                  [] k = "1200" -> <<-52, 122, 69, -294>>
                  [] OTHER      -> <<-50, 80, 69, -250>>]]
_grating_orientation_no_fallback(slider, ruling, tilt) ==
    IF slider = 2 /\ ruling \div 100 = 0
    THEN [status |-> "ok", roll |-> 0, yaw |-> 0, tilt |-> -1942300]
    ELSE IF slider = 2
    THEN [status |-> "ValueError"]
    ELSE IF slider \notin DOMAIN orientation_coeffs
    THEN [status |-> "KeyError"]
    ELSE IF ruling \div 100 \notin CalibratedRulings
    THEN [status |-> "KeyError"]
    ELSE LET c == orientation_coeffs[slider][RulingKey(ruling \div 100)]
         IN  [status |-> "ok", roll |-> c[1], yaw |-> c[2],
              tilt |-> tilt * (100000 - c[3]) + 100 * c[4]]
_grating_orientation(slider, ruling, tilt) ==
    IF slider = 2 /\ ruling \div 100 = 0
    THEN [status |-> "ok", roll |-> 0, yaw |-> 0, tilt |-> -1942300]
    ELSE IF slider = 2
    THEN [status |-> "ValueError"]
    ELSE IF slider \notin DOMAIN orientation_coeffs
    THEN [status |-> "KeyError"]
    ELSE LET c == orientation_coeffs[slider][RulingKey(ruling \div 100)]
         IN  [status |-> "ok", roll |-> c[1], yaw |-> c[2],
              tilt |-> tilt * (100000 - c[3]) + 100 * c[4]]

\* get_grating, lines 464-476: the tilt and the central wavelength read
header_tilt(f) == IF f.GRATEPOS = 3 THEN f.G3TLTVAL ELSE f.G4TLTVAL
header_wave_g3(f) == f.G3TLTWAV
header_wave(f) == IF f.GRATEPOS = 3 THEN f.G3TLTWAV ELSE f.G4TLTWAV
\* lines 496-498: None for the mirror, else the ReflectionGrating
new_grating(f, ruling, o) ==
    IF o.status # "ok" THEN [status |-> o.status]
    ELSE [status |-> "ok",
          grating |-> IF ruling = 0 THEN None
                      ELSE Some([ruling |-> ruling, tilt |-> o.tilt, roll |-> o.roll,
                                 yaw |-> o.yaw, central_wave |-> header_wave(f)])]
\* get_grating: the outcome and the value assigned to self.grating
get_grating(f) ==
    IF RulingRaises(f.GRATENAM) THEN [status |-> "ValueError"]
    ELSE new_grating(f, Ruling(f.GRATENAM),
                     _grating_orientation(f.GRATEPOS, Ruling(f.GRATENAM),
                                          header_tilt(f)))

\* get_slitmask: the outcome and the value assigned to self.slitmask
get_slitmask(f) ==
    IF f.mask = 0 THEN [status |-> "KeyError"]
    ELSE [status |-> "ok", slitmask |-> Some(f.mask)]

OpticInit ==
    /\ slitmask = None /\ grating = None /\ optical_model = None
    /\ detector_map = None
    /\ built = [om |-> 0, dm |-> 0]
    /\ last = [call |-> "__init__", status |-> "ok", filename |-> None]

\* The effect of a call on the object and the record of it.
GetSlitmask(f, out) ==
    /\ slitmask' = IF out.status = "ok" THEN out.slitmask ELSE slitmask
    /\ last' = [call |-> "get_slitmask", status |-> out.status, filename |-> Some(f)]
    /\ UNCHANGED <<grating, optical_model, detector_map, built>>
    /\ UNCHANGED <<traceVars, persistVars, distVars, extraVars>>

GetGrating(f, out) ==
    /\ grating' = IF out.status = "ok" THEN out.grating ELSE grating
    /\ last' = [call |-> "get_grating", status |-> out.status, filename |-> Some(f)]
    /\ UNCHANGED <<slitmask, optical_model, detector_map, built>>
    /\ UNCHANGED <<traceVars, persistVars, distVars, extraVars>>

\* mask_to_pixel_coordinates, lines 540-545: a file resets the slit mask (when
\* x and y are omitted) and the grating.
read_slitmask(x, y, filename) ==
    IF IsSome(filename) /\ ~x /\ ~y THEN get_slitmask(Val(filename))
    ELSE [status |-> "ok", slitmask |-> slitmask]
read_grating(sm, filename) ==
    IF IsSome(filename) /\ sm.status = "ok" THEN get_grating(Val(filename))
    ELSE [status |-> "ok", grating |-> grating]
\* The outcome and the values of self.slitmask and self.grating afterwards.
file_outcome(sm, gr) ==
    [status |-> IF sm.status # "ok" THEN sm.status ELSE gr.status,
     slitmask |-> IF sm.status = "ok" THEN sm.slitmask ELSE slitmask,
     grating |-> IF gr.status = "ok" THEN gr.grating ELSE grating]
read_file_grating_with_mask(x, y, filename) ==
    file_outcome(read_slitmask(x, y, filename),
                 IF ~x /\ ~y
                 THEN read_grating(read_slitmask(x, y, filename), filename)
                 ELSE [status |-> "ok", grating |-> grating])
read_file(x, y, filename) ==
    file_outcome(read_slitmask(x, y, filename),
                 read_grating(read_slitmask(x, y, filename), filename))

\* lines 556-559: the optical model is built on the first query and only gets
\* its grating reset afterwards (DEIMOSOpticalModel.reset_grating).
model_for_no_reset(g) ==
    IF IsNone(optical_model) THEN [id |-> built.om + 1, grating |-> g]
    ELSE Val(optical_model)
model_for(g) ==
    IF IsNone(optical_model) THEN [id |-> built.om + 1, grating |-> g]
    ELSE [Val(optical_model) EXCEPT !.grating = g]

\* lines 537-538 and 547-554: the checks of the arguments and of the state
\* the file left.
query_status(x, y, file) ==
    IF x # y THEN "ValueError"
    ELSE IF file.status # "ok" THEN file.status
    ELSE IF ~x /\ ~y /\ IsNone(file.slitmask) THEN "ValueError"
    ELSE IF IsNone(file.grating) THEN "ValueError"
    ELSE "ok"
\* The outcome and the state reached.
query(x, y, file, status) ==
    [status |-> status,
     slitmask |-> IF x # y THEN slitmask ELSE file.slitmask,
     grating |-> IF x # y THEN grating ELSE file.grating,
     optical_model |-> IF status = "ok" THEN Some(model_for(Val(file.grating)))
                       ELSE optical_model,
     detector_map |-> IF status = "ok" /\ IsNone(detector_map)
                      THEN Some(built.dm + 1) ELSE detector_map,
     built |-> [om |-> IF status = "ok" /\ IsNone(optical_model)
                       THEN built.om + 1 ELSE built.om,
                dm |-> IF status = "ok" /\ IsNone(detector_map)
                       THEN built.dm + 1 ELSE built.dm]]
\* mask_to_pixel_coordinates(x, y, filename=...): x and y tell whether the
\* argument is given.
mask_to_pixel_coordinates(x, y, filename) ==
    query(x, y, read_file(x, y, filename),
          query_status(x, y, read_file(x, y, filename)))

MaskToPixelCoordinates(x, y, filename, out) ==
    /\ slitmask' = out.slitmask
    /\ grating' = out.grating
    /\ optical_model' = out.optical_model
    /\ detector_map' = out.detector_map
    /\ built' = out.built
    /\ last' = IF out.status = "ok"
               THEN [call |-> "mask_to_pixel_coordinates", status |-> "ok",
                     x |-> x, y |-> y, filename |-> filename,
                     \* the model was there before the call
                     reused |-> IsSome(optical_model),
                     \* the ray trace: mask_to_imaging_coordinates on the
                     \* model's grating, then ccd_coordinates of the map
                     traced_with |-> Val(out.optical_model).grating,
                     model |-> Val(out.optical_model).id,
                     map |-> Val(out.detector_map)]
               ELSE [call |-> "mask_to_pixel_coordinates", status |-> out.status,
                     x |-> x, y |-> y, filename |-> filename]
    /\ UNCHANGED <<traceVars, persistVars, distVars, extraVars>>
OpticNext ==
    \/ \E f \in Files : GetSlitmask(f, get_slitmask(f))
    \/ \E f \in Files : GetGrating(f, get_grating(f))
    \/ \E x \in BOOLEAN, y \in BOOLEAN,
          filename \in {None} \cup {Some(f) : f \in Files} :
          MaskToPixelCoordinates(x, y, filename,
                                 mask_to_pixel_coordinates(x, y, filename))

\* ---- mask_to_pixel_coordinates(x, y) statement by statement, for callers
\* that share the spectrograph object.  The call has x and y and no file.
\* An optical model built or reset with self.grating = None holds no grating.
NoGrating == [ruling |-> 0]
held(g) == IF IsSome(g) THEN Val(g) ELSE NoGrating
Idle == inflight.pc \in {"idle", "done", "raised"}
\* With the lock, no other call runs while the query is in flight.
MayCall == ~lock \/ Idle
ConcInit ==
    /\ inflight = [pc |-> "idle", checked |-> None, traced |-> None]
    /\ lock = FALSE
\* lines 537-555: the checks; the grating is read for the first time.
QueryCheck ==
    /\ Idle
    /\ inflight' = IF IsNone(grating)
                   THEN [pc |-> "raised", checked |-> None, traced |-> None]
                   ELSE [pc |-> "model", checked |-> grating, traced |-> None]
    /\ UNCHANGED <<traceVars, persistVars, opticVars, distVars, lock, pureVars>>
\* lines 556-559: the model is built or reset with self.grating, read again.
QueryModel ==
    /\ inflight.pc = "model"
    /\ optical_model' = Some(model_for(held(grating)))
    /\ built' = [built EXCEPT !.om = IF IsNone(optical_model) THEN @ + 1 ELSE @]
    /\ inflight' = [inflight EXCEPT !.pc = "map"]
    /\ UNCHANGED <<traceVars, persistVars, distVars, lock, pureVars>>
    /\ UNCHANGED <<slitmask, grating, detector_map, last>>
\* lines 560-561
QueryMap ==
    /\ inflight.pc = "map"
    /\ detector_map' = IF IsNone(detector_map) THEN Some(built.dm + 1) ELSE detector_map
    /\ built' = [built EXCEPT !.dm = IF IsNone(detector_map) THEN @ + 1 ELSE @]
    /\ inflight' = [inflight EXCEPT !.pc = "trace"]
    /\ UNCHANGED <<traceVars, persistVars, distVars, lock, pureVars>>
    /\ UNCHANGED <<slitmask, grating, optical_model, last>>
\* lines 562-566: the ray trace, with the grating the model holds now.
QueryTrace ==
    /\ inflight.pc = "trace"
    /\ inflight' = [inflight EXCEPT
                      !.pc = "done",
                      !.traced = IF Val(optical_model).grating = NoGrating
                                 THEN None ELSE Some(Val(optical_model).grating)]
    /\ UNCHANGED <<traceVars, persistVars, opticVars, distVars, lock, pureVars>>
\* The calls of the other callers, each in one piece.
OtherGetGrating(f) ==
    /\ MayCall
    /\ GetGrating(f, get_grating(f))
OtherQueryWithFile(f) ==
    /\ MayCall
    /\ MaskToPixelCoordinates(TRUE, TRUE, Some(f),
                              mask_to_pixel_coordinates(TRUE, TRUE, Some(f)))
ConcNext ==
    \/ QueryCheck \/ QueryModel \/ QueryMap \/ QueryTrace
    \/ \E f \in Files : OtherGetGrating(f)
    \/ \E f \in Files : OtherQueryWithFile(f)

\* ---- reset_edgearr_ednum applied to a finalized map, once and again
MaxResets == 2
FinalizedMaps == [Pix -> (1 - EdNum)..(EdNum - 1)]
RemapInit == remap = [orig |-> [p \in Pix |-> 0], arr |-> [p \in Pix |-> 0], n |-> 0]
ResetEdgearrEdnum ==
    /\ remap.n < MaxResets
    /\ remap' = [remap EXCEPT !.arr = reset_edgearr_ednum(@), !.n = @ + 1]
    /\ UNCHANGED <<traceVars, persistVars, opticVars, distVars, concVars, dicts, fitstbl, mosaic>>

\* ---- settings dictionaries: default_settings and TraceSlits.__init__
\* A dict is an object with an identity; a key holds a value or another dict.
\* default_settings is {'trace': {'slits': {'maxgap': .., 'pca': {'type': ..}}}}.
Tracers == {"a", "b"}
Owners == Tracers \cup {"default"}
MaxgapValues == {"None", "3"}
TypeValues == {"pixel", "order"}
\* The dicts a caller creates when it assigns a new dict through tracer t.
NewTrace(t) == <<t, "trace">>
NewSlits(t, at) == <<t, "slits", at>>
NewPca(t, at) == <<t, "pca", at>>
TraceIds == {<<"default", "trace">>} \cup {NewTrace(t) : t \in Tracers}
SlitsIds == {<<"default", "slits", 0>>} \cup {NewSlits(t, at) : t \in Tracers, at \in 1..2}
PcaIds == {<<"default", "pca", 0>>} \cup {NewPca(t, at) : t \in Tracers, at \in 1..2}
\* dict.copy(): a new dict with the same keys, holding the same objects.
copy(d) == [k \in DOMAIN d |-> d[k]]
DictsInit ==
    dicts = [top |-> [o \in Owners |->
                        IF o = "default" THEN Some([trace |-> <<"default", "trace">>])
                        ELSE None],
             trace |-> [i \in TraceIds |-> [slits |-> <<i[1], "slits", IF i[1] = "default" THEN 0 ELSE 1>>]],
             slits |-> [i \in SlitsIds |-> [maxgap |-> "None", pca |-> <<i[1], "pca", i[3]>>]],
             pca |-> [i \in PcaIds |-> [type |-> "pixel"]],
             used |-> {},
             by |-> "default"]
\* TraceSlits(mstrace, pixlocn): settings is None, lines 142-143
Construct(t) ==
    /\ IsNone(dicts.top[t])
    /\ dicts' = [dicts EXCEPT !.top[t] = Some(copy(Val(dicts.top["default"]))),
                              !.by = t]
    /\ UNCHANGED <<traceVars, persistVars, opticVars, distVars, concVars, remap, fitstbl, mosaic>>
TraceOf(t) == Val(dicts.top[t]).trace
SlitsOf(t) == dicts.trace[TraceOf(t)].slits
PcaOf(t) == dicts.slits[SlitsOf(t)].pca
\* t.settings['trace'] = {...}
SetTrace(t) ==
    /\ IsSome(dicts.top[t]) /\ NewTrace(t) \notin dicts.used
    /\ dicts' = [dicts EXCEPT !.top[t] = Some([trace |-> NewTrace(t)]),
                              !.used = @ \cup {NewTrace(t)}, !.by = t]
    /\ UNCHANGED <<traceVars, persistVars, opticVars, distVars, concVars, remap, fitstbl, mosaic>>
\* t.settings['trace']['slits'] = {...}
SetSlits(t) ==
    /\ IsSome(dicts.top[t]) /\ NewSlits(t, 2) \notin dicts.used
    /\ dicts' = [dicts EXCEPT !.trace[TraceOf(t)].slits = NewSlits(t, 2),
                              !.used = @ \cup {NewSlits(t, 2)}, !.by = t]
    /\ UNCHANGED <<traceVars, persistVars, opticVars, distVars, concVars, remap, fitstbl, mosaic>>
\* t.settings['trace']['slits']['maxgap'] = v
SetMaxgap(t, v) ==
    /\ IsSome(dicts.top[t])
    /\ dicts' = [dicts EXCEPT !.slits[SlitsOf(t)].maxgap = v, !.by = t]
    /\ UNCHANGED <<traceVars, persistVars, opticVars, distVars, concVars, remap, fitstbl, mosaic>>
\* t.settings['trace']['slits']['pca']['type'] = v
SetPcaType(t, v) ==
    /\ IsSome(dicts.top[t])
    /\ dicts' = [dicts EXCEPT !.pca[PcaOf(t)].type = v, !.by = t]
    /\ UNCHANGED <<traceVars, persistVars, opticVars, distVars, concVars, remap, fitstbl, mosaic>>
\* What a reader of o's settings sees.
View(d, o) ==
    LET sl == d.slits[d.trace[Val(d.top[o]).trace].slits]
    IN  [maxgap |-> sl.maxgap, type |-> d.pca[sl.pca].type]
DictsNext ==
    \/ \E t \in Tracers : Construct(t)
    \/ \E t \in Tracers : SetTrace(t)
    \/ \E t \in Tracers : SetSlits(t)
    \/ \E t \in Tracers, v \in MaxgapValues : SetMaxgap(t, v)
    \/ \E t \in Tracers, v \in TypeValues : SetPcaType(t, v)

\* ---- header_keys and add_to_fitstbl (keck_deimos.py)
MaxRows == 2
\* header_keys: the table columns and the header fields they are read from.
header_keys(f) ==
    [dispname |-> f.GRATENAM, gratepos |-> f.GRATEPOS,
     g3tltwav |-> f.G3TLTWAV, g4tltwav |-> f.G4TLTWAV, dispangle |-> f.G3TLTWAV]
\* add_to_fitstbl: for gval 3 and then 4, the rows on that slider get
\* dispangle from the column g3tltwav.
add_to_fitstbl(rows) ==
    [i \in DOMAIN rows |->
        IF rows[i].gratepos \in {3, 4}
        THEN [rows[i] EXCEPT !.dispangle = rows[i].g3tltwav]
        ELSE rows[i]]
FitstblInit == fitstbl = [files |-> <<>>, rows |-> <<>>, added |-> FALSE]
LoadHeaders ==
    /\ fitstbl.files = <<>>
    /\ \E fs \in SeqsUpTo(Files, MaxRows) :
          /\ fs # <<>>
          /\ fitstbl' = [files |-> fs, rows |-> [i \in DOMAIN fs |-> header_keys(fs[i])],
                         added |-> FALSE]
    /\ UNCHANGED <<traceVars, persistVars, opticVars, distVars, concVars, remap, dicts, mosaic>>
AddToFitstbl ==
    /\ fitstbl.files # <<>> /\ ~fitstbl.added
    /\ fitstbl' = [fitstbl EXCEPT !.rows = add_to_fitstbl(@), !.added = TRUE]
    /\ UNCHANGED <<traceVars, persistVars, opticVars, distVars, concVars, remap, dicts, mosaic>>

\* ---- read_deimos and indexing (keck_deimos.py)
MaxPostpix == 6
nchip == 8
ii == 2048
jj == 4096
Dets == {None} \cup {Some(d) : d \in 1..nchip}
indexing_shared_overscan(itt, postpix, det) ==
    LET tt == IF IsSome(det) THEN 0 ELSE itt
    IN  [x1 |-> (tt % 4) * ii, x2 |-> ((tt % 4) + 1) * ii,
         y1 |-> IF tt < 4 THEN 0 ELSE jj, y2 |-> IF tt < 4 THEN jj ELSE 2 * jj,
         o_x1 |-> IF IsNone(det) THEN 4 * ii ELSE ii,
         o_x2 |-> (IF IsNone(det) THEN 4 * ii ELSE ii) + postpix,
         o_y1 |-> IF tt < 4 THEN 0 ELSE jj, o_y2 |-> IF tt < 4 THEN jj ELSE 2 * jj]
\* indexing(itt, postpix, det): the data section and the overscan section of
\* chip itt in the image, as half-open ranges of columns (x) and rows (y).
indexing(itt, postpix, det) ==
    LET tt == IF IsSome(det) THEN 0 ELSE itt
        o_x1 == IF IsNone(det) THEN 4 * ii + (tt % 4) * postpix
                ELSE ii + (tt % 4) * postpix
    IN  [x1 |-> (tt % 4) * ii, x2 |-> ((tt % 4) + 1) * ii,
         y1 |-> IF tt < 4 THEN 0 ELSE jj, y2 |-> IF tt < 4 THEN jj ELSE 2 * jj,
         o_x1 |-> o_x1, o_x2 |-> o_x1 + postpix,
         o_y1 |-> IF tt < 4 THEN 0 ELSE jj, o_y2 |-> IF tt < 4 THEN jj ELSE 2 * jj]
MosaicInit == mosaic = [postpix |-> 1, det |-> None, placed |-> <<>>, done |-> TRUE]
\* read_deimos, one pass of the loop over the chips (lines 748-773)
ReadChip ==
    /\ ~mosaic.done
    /\ LET tt == IF IsSome(mosaic.det) THEN Val(mosaic.det) - 1 ELSE Len(mosaic.placed)
           last_one == IsSome(mosaic.det) \/ tt = nchip - 1
       IN  mosaic' = [mosaic EXCEPT
                        !.placed = Append(@, [tt |-> tt,
                                              sec |-> indexing(tt, mosaic.postpix, mosaic.det)]),
                        !.done = last_one]
    /\ UNCHANGED <<traceVars, persistVars, opticVars, distVars, concVars, remap, dicts, fitstbl>>

\* ----------------------------- DEIMOSCameraDistortion (keck_deimos.py)
\* Angles are fixed-point numbers with DistScale units to one.
DistScale == 10000
c0 == 10000
c2 == 458
c4 == -3088
c6 == -149170
NTab == 1000
XMax == 6000

Mul(a, b) == TruncDiv(a * b, DistScale)
remove_distortion(x) ==
    LET x2 == Mul(x, x)
    IN  TruncDiv(x * DistScale, c0 + Mul(x2, c2 + Mul(x2, c4 + Mul(x2, c6))))
\* np.linspace(-0.6, 0.6, 1000) and the table of the interpolator:
\* interpolator.x[k] is YTab(k), interpolator.y[k] is XTab(k), k from 0.
XTab(k) == -XMax + TruncDiv(2 * XMax * k, NTab - 1)
YTab(k) == remove_distortion(XTab(k))
InDomain(y) == y > YTab(0) /\ y < YTab(NTab - 1)
\* interp1d, linear
interpolator(y) ==
    LET k == CHOOSE j \in 0..(NTab - 2) : YTab(j) <= y /\ y <= YTab(j + 1)
    IN  XTab(k) + TruncDiv((y - YTab(k)) * (XTab(k + 1) - XTab(k)),
                           YTab(k + 1) - YTab(k))
\* apply_distortion(y): the name warnings is not bound in the module, so the
\* statement that reports the warning raises NameError.
apply_distortion(y) ==
    LET indx == [i \in DOMAIN y |-> InDomain(y[i])]
    IN  IF \E i \in DOMAIN y : ~indx[i]
        THEN [status |-> "NameError"]
        ELSE [status |-> "ok", warned |-> FALSE,
              x |-> [i \in DOMAIN y |-> IF indx[i] THEN interpolator(y[i]) ELSE 0]]

MaxLen == 3
Angles == {-30000, YTab(0), -5000, 0, 5000, YTab(NTab - 1), 30000}

DistInit == dist_x = None /\ dist_y = None /\ dist_out = None

ApplyDistortion ==
    /\ IsSome(dist_y) /\ IsNone(dist_out)
    /\ dist_out' = Some(apply_distortion(Val(dist_y)))
    /\ UNCHANGED <<traceVars, persistVars, opticVars, dist_x, dist_y, extraVars>>

\* y = remove_distortion(x), kept for a following apply_distortion(y)
RemoveDistortion ==
    /\ IsSome(dist_x) /\ IsNone(dist_y)
    /\ dist_y' = Some([i \in DOMAIN Val(dist_x) |-> remove_distortion(Val(dist_x)[i])])
    /\ UNCHANGED <<traceVars, persistVars, opticVars, dist_x, dist_out, extraVars>>

\* ------------------------------------ TraceSlits.write / from_files
\* write(root): the HDUs of root.fits by name, and the keys of root.json.
write ==
    [fits |->
        [n \in {"MSTRACE", "PIXLOCN"}
               \cup (IF IsSome(edgearr) THEN {"EDGEARR"} ELSE {})
               \cup (IF IsSome(siglev) THEN {"SIGLEV"} ELSE {})
               \cup (IF input_binbpx THEN {"BINBPX"} ELSE {})
               \cup (IF IsSome(lcen) THEN {"LCEN", "RCEN"} ELSE {}) |->
            CASE n = "MSTRACE" -> "mstrace"
              [] n = "PIXLOCN" -> "pixlocn"
              [] n = "EDGEARR" -> Val(edgearr)
              [] n = "SIGLEV" -> Val(siglev)
              [] n = "BINBPX" -> "binbpx"
              [] n = "LCEN" -> Val(lcen)
              [] n = "RCEN" -> Val(rcen)],
     json |->
        [k \in {"settings", "steps"}
               \cup (IF IsSome(tc_dict) THEN {"tc_dict"} ELSE {}) |->
            CASE k = "settings" -> settings
              [] k = "steps" -> steps
              [] k = "tc_dict" -> Val(tc_dict)]]

\* from_files(root): the object built, or the exception raised.
from_files(d) ==
    LET names == DOMAIN d.fits
        ts_dict == d.json
    IN  IF "tc_dict" \notin DOMAIN ts_dict
        THEN [status |-> "KeyError"]
        ELSE [status |-> "ok",
              mstrace |-> d.fits["MSTRACE"],
              pixlocn |-> d.fits["PIXLOCN"],
              input_binbpx |-> "BINBPX" \in names,
              settings |-> ts_dict["settings"],
              steps |-> ts_dict["steps"],
              lcen |-> IF "LCEN" \in names THEN Some(d.fits["LCEN"]) ELSE None,
              rcen |-> IF "LCEN" \in names THEN Some(d.fits["RCEN"]) ELSE None,
              edgearr |-> IF "EDGEARR" \in names THEN Some(d.fits["EDGEARR"]) ELSE None,
              siglev |-> IF "SIGLEV" \in names THEN Some(d.fits["SIGLEV"]) ELSE None,
              tc_dict |-> Some(ts_dict["tc_dict"])]

\* The fields of the tracer that the artifacts are meant to carry.
self ==
    [status |-> "ok", mstrace |-> "mstrace", pixlocn |-> "pixlocn",
     input_binbpx |-> input_binbpx, settings |-> settings, steps |-> steps,
     lcen |-> lcen, rcen |-> rcen, edgearr |-> edgearr, siglev |-> siglev,
     tc_dict |-> tc_dict]

\* The tracer is used by one caller: it is written between calls of run().
Between == pc \in {"idle", "done", "fatal", "raised"}

PersistInit == input_binbpx = FALSE /\ disk = None /\ loaded = None

Write ==
    /\ Between
    /\ disk' = Some(write)
    /\ UNCHANGED <<traceVars, input_binbpx, loaded, opticVars, distVars, extraVars>>

FromFiles ==
    /\ IsSome(disk)
    /\ loaded' = Some(from_files(Val(disk)))
    /\ UNCHANGED <<traceVars, input_binbpx, disk, opticVars, distVars, extraVars>>

\* ------------------------------------------------------ specifications
\* One run of the tracer.
PureInit == RemapInit /\ DictsInit /\ FitstblInit /\ MosaicInit
ExtraInit == ConcInit /\ PureInit

Init == TraceInit /\ PersistInit /\ OpticInit /\ DistInit /\ ExtraInit
Next == TraceNext
Spec == Init /\ [][Next]_vars

\* A tracer that is run, written and read back.
PersistSettings ==
    {s \in SettingsSet : /\ ~s.single /\ s.pcatype = "pixel"
                         /\ s.fracignore = <<1, 100>> /\ s.pad = 0}
InitPersist ==
    /\ TraceInit /\ settings \in PersistSettings
    /\ input_binbpx \in BOOLEAN /\ disk = None /\ loaded = None
    /\ OpticInit /\ DistInit /\ ExtraInit
NextPersist == TraceNext \/ Write \/ FromFiles
SpecPersist == InitPersist /\ [][NextPersist]_vars

\* A spectrograph object and its calls.
InitOptic ==
    /\ TraceInit /\ settings = default_settings
    /\ PersistInit /\ OpticInit /\ DistInit /\ ExtraInit
SpecOptic == InitOptic /\ [][OpticNext]_vars

\* A spectrograph object shared by callers, with and without a lock.
InitConc ==
    /\ TraceInit /\ settings = default_settings
    /\ PersistInit /\ OpticInit /\ DistInit
    /\ inflight = [pc |-> "idle", checked |-> None, traced |-> None]
    /\ lock \in BOOLEAN
    /\ PureInit
SpecConc == InitConc /\ [][ConcNext]_vars

\* A camera distortion object and its calls.
InitDistort ==
    /\ TraceInit /\ settings = default_settings
    /\ PersistInit /\ OpticInit /\ ExtraInit
    /\ dist_x = None
    /\ dist_y \in {Some(y) : y \in SeqsUpTo(Angles, MaxLen)} /\ dist_out = None
SpecDistort == InitDistort /\ [][ApplyDistortion]_vars

\* A camera distortion removed and applied again, for one angle of the
\* tabulated domain [-0.6, 0.6]: every TabStride-th point of the table, its
\* two ends, and the angle of the unit test.
TabStride == 25
RoundTripInputs ==
    {XTab(k) : k \in {j \in 0..(NTab - 1) : j % TabStride = 0}}
    \cup {XTab(NTab - 1), XTab(NTab - 2) + 6, 5000}
InitRoundTrip ==
    /\ TraceInit /\ settings = default_settings
    /\ PersistInit /\ OpticInit /\ ExtraInit
    /\ dist_x \in {Some(<<x>>) : x \in RoundTripInputs}
    /\ dist_y = None /\ dist_out = None
SpecRoundTrip == InitRoundTrip /\ [][RemoveDistortion \/ ApplyDistortion]_vars

\* reset_edgearr_ednum on every finalized map.
InitReset ==
    /\ TraceInit /\ settings = default_settings
    /\ PersistInit /\ OpticInit /\ DistInit /\ ConcInit /\ DictsInit /\ FitstblInit
    /\ MosaicInit
    /\ \E m \in FinalizedMaps : remap = [orig |-> m, arr |-> m, n |-> 0]
SpecReset == InitReset /\ [][ResetEdgearrEdnum]_vars

\* The module's default settings and two tracers constructed without settings.
InitDicts ==
    /\ TraceInit /\ settings = default_settings
    /\ PersistInit /\ OpticInit /\ DistInit /\ ExtraInit
SpecDicts == InitDicts /\ [][DictsNext]_vars

\* The header table of a set of frames.
SpecFitstbl == InitDicts /\ [][LoadHeaders \/ AddToFitstbl]_vars

\* One read_deimos call, for the mosaic or for one detector.
InitMosaic ==
    /\ TraceInit /\ settings = default_settings
    /\ PersistInit /\ OpticInit /\ DistInit /\ ConcInit
    /\ RemapInit /\ DictsInit /\ FitstblInit
    /\ \E pp \in 1..MaxPostpix, d \in Dets :
          mosaic = [postpix |-> pp, det |-> d, placed |-> <<>>, done |-> FALSE]
SpecMosaic == InitMosaic /\ [][ReadChip]_vars

\* ------------------------------------------------------------- claims
AdaptivePhases ==
    {"_match_edges", "_add_left_right", "_assign_edges", "_mslit_tcrude",
     "_mslit_sync", "_final_left_right"}
LaterPhases ==
    AdaptivePhases \cup
    {"_maxgap_prep", "_maxgap_close", "add_user_slits", "_ignore_orders",
     "_fit_edges_left", "_fit_edges_right", "_synchronize",
     "_pca_order_slit_edges", "_pca_pixel_slit_edges", "_trim_slits"}
Ran(name) == \E i \in DOMAIN steps : steps[i] = name
LastStep == steps[Len(steps)]
MedianWidth2(l, r) == Median2([row \in Rows |-> r[row] - l[row]])
NoZero(col) == \A row \in Rows : col[row] # 0

\* C1: when _match_edges counts lcnt >= ednum or rcnt >= ednum, run() stops
\* there with a fatal error: no later phase is recorded, no edge curves exist
\* and nothing is returned.
C1_OverflowAborts ==
    (IsSome(cnt) /\ (Val(cnt).l >= EdNum \/ Val(cnt).r >= EdNum)) =>
        /\ pc = "fatal"
        /\ <<"error", 0>> \in msglog
        /\ \A name \in LaterPhases : ~Ran(name)
        /\ IsNone(lcen) /\ IsNone(rcen) /\ IsNone(ret)
C1_Witness ==
    pc = "fatal" /\ IsSome(cnt) /\ Val(cnt).l >= EdNum /\ Val(cnt).r < EdNum

\* C2 (as claimed): in every finished run, no returned slit has a median width
\* below fracignore x detector width.
C2_NarrowNeverReturned ==
    pc = "done" =>
        \A i \in DOMAIN Val(ret).lcen :
            ~(MedianWidth2(Val(ret).lcen[i], Val(ret).rcen[i]) * settings.fracignore[2]
                < 2 * settings.fracignore[1] * NCols)
\* C2 (amended): when _trim_slits runs with armlsd true, every slit that enters
\* it with a median width below int(fracignore x detector width) is reported
\* by its 1-based index and is absent from lcen/rcen afterwards.
C2_TrimDropsNarrow ==
    [][(pc = "_trim_slits" /\ pc' = "pixels" /\ args.armlsd) =>
         \A o \in DOMAIN Val(lcen) :
            (MedianWidth2(Val(lcen)[o], Val(rcen)[o])
                < 2 * ((settings.fracignore[1] * NCols) \div settings.fracignore[2])) =>
               /\ <<"less than fracignore", o>> \in msglog'
               /\ \A k \in DOMAIN Val(lcen') :
                     ~(Val(lcen')[k] = Val(lcen)[o] /\ Val(rcen')[k] = Val(rcen)[o])
               /\ Len(Val(lcen')) < Len(Val(lcen))]_vars
C2_Witness ==
    /\ pc = "pixels" /\ args.armlsd /\ LastStep = "_trim_slits"
    /\ \E o \in 1..MaxSlits : <<"less than fracignore", o>> \in msglog
    /\ Len(Val(lcen)) >= 1

FileGivesGrating(f) ==
    f.GRATEPOS \in {3, 4} /\ ~Contains(f.GRATENAM, Mirror)
C4_FailsWithoutMaskOrGrating ==
    [][(last' # last /\ last'.call = "mask_to_pixel_coordinates") =>
         LET f == last'.filename
             omitted == ~last'.x /\ ~last'.y
             no_mask == IsNone(slitmask) /\ (IsNone(f) \/ Val(f).mask = 0)
             no_grating == IF IsSome(f) THEN ~FileGivesGrating(Val(f))
                           ELSE IsNone(grating)
         IN  /\ (omitted /\ no_mask) => last'.status # "ok"
             /\ no_grating => last'.status # "ok"
             /\ (last'.x /\ last'.y /\ IsNone(f) /\ IsSome(grating)) =>
                   last'.status = "ok"]_vars
C4_Witness ==
    /\ last.call = "mask_to_pixel_coordinates" /\ last.status = "ValueError"
    /\ last.x /\ last.y /\ IsSome(last.filename)
    /\ Contains(Val(last.filename).GRATENAM, Mirror)
    /\ IsNone(grating) /\ IsSome(optical_model)

\* C5: the optical model and the detector map are constructed at most once;
\* every successful query uses that one model and that one map, and the
\* grating it traces with is the spectrograph's current grating.
C5_BuiltOnceTracedWithCurrent ==
    /\ built.om <= 1 /\ built.dm <= 1
    /\ (IsSome(optical_model) <=> built.om = 1)
    /\ (IsSome(detector_map) <=> built.dm = 1)
    /\ (last.call = "mask_to_pixel_coordinates" /\ last.status = "ok") =>
          /\ last.model = 1 /\ last.map = 1
          /\ IsSome(grating) /\ last.traced_with = Val(grating)
          /\ Val(optical_model).grating = Val(grating)
C5_Witness ==
    /\ last.call = "mask_to_pixel_coordinates" /\ last.status = "ok"
    /\ last.reused /\ IsSome(last.filename) /\ built.om = 1
    /\ last.traced_with = Val(grating)

\* C6: write(root) followed by from_files(root) gives an object whose mstrace,
\* pixlocn, bad-pixel mask, edgearr, siglev, lcen, rcen, settings, steps and
\* tc_dict equal those of the tracer that was written.
C6_RoundTrip ==
    [][(loaded' # loaded /\ IsSome(disk) /\ Val(disk) = write) =>
         Val(loaded') = self]_vars

\* C7 (as claimed): with a pca type other than order, pixel and none the run
\* is fatal and no lcen/rcen is produced.
C7_UnsupportedIsFatal ==
    (settings.pcatype \notin {"order", "pixel", "none"} /\ IsSome(cent)) =>
        IsNone(lcen) /\ IsNone(rcen) /\ IsNone(ret)
\* C7 (amended): with any pca type other than order and pixel, _pca is no
\* error: it runs no PCA, keeps exactly the slits whose left and right
\* centroid curves have a value in every row, marks none as extrapolated, and
\* the run goes on to _trim_slits.
C7_OtherTypesSkipPca ==
    [][(pc = "_pca" /\ settings.pcatype \notin {"order", "pixel"}) =>
         LET l == Val(cent).l
             r == Val(cent).r
             valid == {i \in DOMAIN l : NoZero(l[i]) /\ NoZero(r[i])}
         IN  /\ pc' = "_trim_slits" /\ steps' = steps
             /\ Len(Val(lcen')) = Cardinality(valid)
             /\ Len(Val(rcen')) = Cardinality(valid)
             /\ Len(Val(extrapord')) = Cardinality(valid)
             /\ \A k \in DOMAIN Val(extrapord') : ~Val(extrapord')[k]
             /\ \A i \in valid : \E k \in DOMAIN Val(lcen') :
                   Val(lcen')[k] = l[i] /\ Val(rcen')[k] = r[i]]_vars
C7_Witness ==
    /\ pc = "_trim_slits" /\ settings.pcatype = "pca"
    /\ IsSome(lcen) /\ Len(Val(lcen)) = 1 /\ Len(Val(cent).l) = 2

\* C8 (as claimed): get_grating fails whenever the slider is not a calibrated
\* position or the ruling is not a calibrated ruling.
C8_UnrecognizedFails ==
    (last.call = "get_grating") =>
        LET f == Val(last.filename)
        IN  (f.GRATEPOS \notin {3, 4}
             \/ Ruling(f.GRATENAM) \div 100 \notin CalibratedRulings) =>
               last.status # "ok"
\* C8 (amended): get_grating fails with KeyError when the slider is not 2, 3
\* or 4 and with ValueError when slider 2 holds something else than the
\* mirror; on slider 3 or 4 a ruling that is not calibrated is no error: the
\* grating is built with the default ('other') roll and yaw of the slider (a
\* mirror gives no grating).
C8_OtherRulingUsesDefaults ==
    (last.call = "get_grating") =>
        LET f == Val(last.filename)
            mirror == Contains(f.GRATENAM, Mirror)
            r == Ruling(f.GRATENAM) \div 100
        IN  /\ f.GRATEPOS \notin {2, 3, 4} => last.status = "KeyError"
            /\ (f.GRATEPOS = 2 /\ ~mirror) => last.status = "ValueError"
            /\ (f.GRATEPOS = 2 /\ mirror) => last.status = "ok" /\ IsNone(grating)
            /\ f.GRATEPOS \in {3, 4} =>
                  /\ last.status = "ok"
                  /\ mirror => IsNone(grating)
                  /\ (~mirror /\ r \notin CalibratedRulings) =>
                        /\ IsSome(grating)
                        /\ Val(grating).ruling = Ruling(f.GRATENAM)
                        /\ Val(grating).roll = (IF f.GRATEPOS = 3 THEN 145 ELSE -50)
                        /\ Val(grating).yaw = (IF f.GRATEPOS = 3 THEN 0 ELSE 80)
C8_Witness ==
    /\ last.call = "get_grating" /\ last.status = "ok"
    /\ Val(last.filename).GRATEPOS = 3
    /\ Ruling(Val(last.filename).GRATENAM) = 100000
    /\ IsSome(grating) /\ Val(grating).roll = 145

\* C9: apply_distortion with an element outside the open tabulated interval
\* completes normally, with 0 for every element outside the interval.
C9_OutOfDomainZeroFilled ==
    (IsSome(dist_out) /\ \E i \in DOMAIN Val(dist_y) : ~InDomain(Val(dist_y)[i])) =>
        /\ Val(dist_out).status = "ok"
        /\ \A i \in DOMAIN Val(dist_y) :
              ~InDomain(Val(dist_y)[i]) => Val(dist_out).x[i] = 0

\* C10: in user_set mode run() records none of the adaptive phases (edge
\* matching, bracket edges, edge assignment, crude tracing, multi-slit
\* synchronization, final left/right).
C10_UserSetSkipsAdaptive ==
    (IsSome(user_set) /\ Val(user_set)) => \A name \in AdaptivePhases : ~Ran(name)

OneLeftOneRight ==
    /\ IsSome(lrminx)
    /\ Val(lrminx).lmin = Val(lrminx).lmax
    /\ Val(lrminx).rmin = Val(lrminx).rmax
Sign(x) == IF x < 0 THEN -1 ELSE IF x > 0 THEN 1 ELSE 0

\* C11: when the edge map has exactly one left ID and one right ID, run()
\* takes the longslit shortcut: lcen and rcen get one column with a value in
\* every row, extrapord is a single FALSE, and _synchronize, _pca and
\* _trim_slits are not entered; in every other case run() goes through
\* _synchronize, _pca and _trim_slits, in that order, before the pixel traces.
C11_LongslitShortcut ==
    [][ /\ (pc = "_chk_for_longslit" /\ OneLeftOneRight) =>
              /\ pc' = "pixels"
              /\ Len(Val(lcen')) = 1 /\ DOMAIN Val(lcen')[1] = Rows
              /\ Len(Val(rcen')) = 1 /\ DOMAIN Val(rcen')[1] = Rows
              /\ extrapord' = Some(<<FALSE>>)
              /\ steps' = steps /\ cent' = cent
        /\ (pc = "_chk_for_longslit" /\ ~OneLeftOneRight) =>
              /\ pc' = "_synchronize"
              /\ lcen' = lcen /\ rcen' = rcen /\ extrapord' = extrapord
        /\ pc = "_synchronize" => (pc' = "_pca" /\ IsSome(cent'))
        /\ pc = "_pca" => (pc' = "_trim_slits" /\ IsSome(lcen') /\ IsSome(extrapord'))
        /\ pc = "_trim_slits" => (pc' = "pixels" /\ steps' = Append(steps, "_trim_slits"))
        /\ pc' = "_synchronize" => pc = "_chk_for_longslit"
        /\ pc' = "_pca" => pc = "_synchronize"
        /\ pc' = "_trim_slits" => pc = "_pca"
      ]_vars
C11_Witness ==
    /\ pc = "pixels" /\ OneLeftOneRight
    /\ Len(Val(lcen)) = 1 /\ Val(extrapord) = <<FALSE>>
    /\ IsNone(cent) /\ ~Ran("_synchronize") /\ ~Ran("_trim_slits")

\* C12 (as claimed): _assign_edges, the single-left and single-right cases
\* included, leaves every nonzero pixel with a magnitude in the finalized
\* range [1, ednum) and with the sign it had before.
C12_AssignedAreFinalized ==
    [][pc = "_assign_edges" =>
          \A p \in Pix :
              Val(edgearr')[p] # 0 =>
                  /\ Abs(Val(edgearr')[p]) \in 1..(EdNum - 1)
                  /\ Sign(Val(edgearr')[p]) = Sign(Val(edgearr)[p])]_vars

\* C13 (as claimed): when the edge map that reaches the fitting phase has no
\* left-edge pixel or no right-edge pixel, _set_lrminx completes and run()
\* goes on to the fits.
C13_EmptySideCompletes ==
    [][(pc = "_set_lrminx" /\ SetLrminxRaises(Val(edgearr))) =>
          (pc' = "_fit_edges_left" /\ IsSome(lrminx'))]_vars

\* The lifecycle phase of a nonzero pixel: 0 raw, 1 labeled, 2 finalized.
Phase(v) ==
    IF Abs(v) >= 2*EdNum THEN 0 ELSE IF Abs(v) >= EdNum THEN 1 ELSE 2

\* C14 (as claimed): within one run, add_user_slits included, no step moves a
\* nonzero pixel of the edge map to an earlier lifecycle phase: finalized
\* [1, ednum) never becomes labeled [ednum, 2*ednum) or raw, labeled never
\* becomes raw.
C14_PhaseOnlyForward ==
    [][(IsSome(edgearr) /\ IsSome(edgearr')) =>
          \A p \in Pix :
              (Val(edgearr)[p] # 0 /\ Val(edgearr')[p] # 0) =>
                  Phase(Val(edgearr')[p]) >= Phase(Val(edgearr)[p])]_vars

\* The drop conditions of a slit with edges l, r, as the claim lists them.
Dropped(l, r, usefracpix) ==
    \/ \A row \in Rows : l[row] > NCols
    \/ \A row \in Rows : r[row] < 0
    \/ /\ usefracpix
       /\ MedianWidth2(l, r)
            < 2 * ((settings.fracignore[1] * NCols) \div settings.fracignore[2])
Increasing(f) == \A i \in DOMAIN f : \A j \in DOMAIN f : i < j => f[i] < f[j]

\* C15: _trim_slits keeps exactly the slits that meet none of the drop
\* conditions (left edge beyond the right boundary in every row; right edge
\* left of pixel 0 in every row; with usefracpix, median width below the
\* fracignore threshold) and removes every other one; the survivors keep
\* their relative order and lcen and rcen keep the same columns.
C15_TrimKeepsExactly ==
    [][pc = "_trim_slits" =>
          LET l == Val(lcen)
              r == Val(rcen)
              kept == {o \in DOMAIN l : ~Dropped(l[o], r[o], args.armlsd)}
          IN  /\ Len(Val(lcen')) = Cardinality(kept)
              /\ Len(Val(rcen')) = Len(Val(lcen'))
              /\ \E f \in [DOMAIN Val(lcen') -> DOMAIN l] :
                    /\ Increasing(f)
                    /\ {f[k] : k \in DOMAIN f} = kept
                    /\ \A k \in DOMAIN f :
                          Val(lcen')[k] = l[f[k]] /\ Val(rcen')[k] = r[f[k]]]_vars
C15_Witness ==
    /\ pc = "pixels" /\ LastStep = "_trim_slits" /\ IsSome(cent)
    /\ settings.pcatype = "order" /\ Len(Val(cent).l) = 2
    /\ Len(Val(lcen)) = 1 /\ Val(lcen)[1] = Val(cent).l[2]
    /\ <<"off the detector", 1>> \in msglog

\* C16: with no PCA selected, _pca takes lcen and rcen from lcent and rcent:
\* exactly the slits with a zero (no valid value) in some row of either edge
\* are discarded, the others are kept in their order with the same columns in
\* lcen and rcen, and extrapord holds one FALSE per kept slit.
C16_NoPcaTakesCentroids ==
    [][(pc = "_pca" /\ settings.pcatype = "none") =>
          LET l == Val(cent).l
              r == Val(cent).r
              bad == {i \in DOMAIN l :
                        \E row \in Rows : l[i][row] = 0 \/ r[i][row] = 0}
          IN  \E f \in [DOMAIN Val(lcen') -> DOMAIN l] :
                 /\ Increasing(f)
                 /\ {f[k] : k \in DOMAIN f} = DOMAIN l \ bad
                 /\ DOMAIN Val(rcen') = DOMAIN f
                 /\ \A k \in DOMAIN f :
                       Val(lcen')[k] = l[f[k]] /\ Val(rcen')[k] = r[f[k]]
                 /\ Val(extrapord') = [k \in DOMAIN f |-> FALSE]]_vars
C16_Witness ==
    /\ pc = "_trim_slits" /\ settings.pcatype = "none" /\ IsSome(lcen)
    /\ Len(Val(cent).l) = 2 /\ HasZero(Val(cent).l[2])
    /\ Val(lcen) = <<Val(cent).l[1]>> /\ Val(rcen) = <<Val(cent).r[1]>>
    /\ Val(extrapord) = <<FALSE>>

\* C17: in the slitpix image run() returns, a pixel holds the 1-based index i
\* of a surviving slit exactly when it lies strictly between the left and the
\* right edge of slit i after padding; where padded slits overlap the later
\* index wins; every other pixel is 0.
C17_SlitpixLabels ==
    pc = "done" =>
        /\ Val(ret).lcen = Val(lcen) /\ Val(ret).rcen = Val(rcen)
        /\ \A row \in Rows : \A col \in 0..(NCols - 1) :
              LET covering == {i \in DOMAIN Val(lcen) :
                                 /\ Val(lcen)[i][row] - settings.pad < col
                                 /\ col < Val(rcen)[i][row] + settings.pad}
              IN  Val(ret).slitpix[row][col] =
                      IF covering = {} THEN 0 ELSE MaxOf(covering)
C17_Witness ==
    /\ pc = "done" /\ settings.pad = 1 /\ Len(Val(lcen)) = 2
    /\ Len(Val(cent).l) = 2
    /\ \E row \in Rows : \E col \in 0..(NCols - 1) :
          /\ Val(lcen)[1][row] - 1 < col /\ col < Val(rcen)[1][row] + 1
          /\ Val(ret).slitpix[row][col] = 2
    /\ \E row \in Rows : \E col \in 0..(NCols - 1) : Val(ret).slitpix[row][col] = 0

\* C18: a grating built by get_grating has its central wavelength and its
\* tilt from the G3 tilt header fields when the slider is 3 and from the G4
\* fields for every other slider; the grating get_grating stored is the one a
\* following mask_to_pixel_coordinates with x and y and no file traces with.
C18_TiltFieldsBySlider ==
    [][ /\ (last' # last /\ last'.call = "get_grating" /\ last'.status = "ok"
             /\ IsSome(grating')) =>
              LET f == Val(last'.filename)
                  wave == IF f.GRATEPOS = 3 THEN f.G3TLTWAV ELSE f.G4TLTWAV
                  tilt == IF f.GRATEPOS = 3 THEN f.G3TLTVAL ELSE f.G4TLTVAL
              IN  /\ Val(grating').central_wave = wave
                  /\ Val(grating').tilt =
                        _grating_orientation(f.GRATEPOS, Ruling(f.GRATENAM), tilt).tilt
        /\ (last.call = "get_grating" /\ last.status = "ok"
             /\ last' # last /\ last'.call = "mask_to_pixel_coordinates"
             /\ last'.x /\ last'.y /\ IsNone(last'.filename)) =>
              /\ grating' = grating
              /\ IF IsSome(grating)
                 THEN last'.status = "ok" /\ last'.traced_with = Val(grating)
                 ELSE last'.status = "ValueError"
      ]_vars
C18_Witness ==
    /\ last.call = "mask_to_pixel_coordinates" /\ last.status = "ok"
    /\ last.x /\ last.y /\ IsNone(last.filename) /\ ~last.reused
    /\ IsNone(slitmask)
    /\ last.traced_with = Val(grating)
    /\ Val(grating).central_wave = 7000

\* C19 (as claimed): for every angle x of the tabulated domain,
\* apply_distortion(remove_distortion(x)) completes and gives x back.  The
\* tolerance of the claim, 1e-5, is below the unit of the fixed point, so the
\* formula asks for no more than agreement within one unit, which the claim
\* implies.
C19_RoundTripRecovers ==
    (IsSome(dist_x) /\ IsSome(dist_out)) =>
        /\ Val(dist_out).status = "ok"
        /\ \A i \in DOMAIN Val(dist_x) :
              Abs(Val(dist_out).x[i] - Val(dist_x)[i]) <= 1

\* C21: when the calls on the spectrograph object are serialized, a finished
\* mask_to_pixel_coordinates call has traced with the grating that passed its
\* own check; without the lock, a get_grating call or a query with a file
\* between its statements can make it trace with another grating, or none.
C21_SerializedTracesChecked ==
    (lock /\ inflight.pc = "done") => inflight.traced = inflight.checked
C21_Witness ==
    /\ ~lock /\ inflight.pc = "done"
    /\ IsSome(inflight.checked) /\ IsNone(inflight.traced)

\* The phases of run() in the order of its statements (lines 870-954).
PhaseOrder ==
    <<"idle", "_match_edges", "_add_left_right", "_maxgap_prep", "_assign_edges",
      "_maxgap_close", "_final_left_right", "_mslit_tcrude", "_mslit_sync",
      "add_user_slits", "_ignore_orders", "_set_lrminx", "_fit_edges_left",
      "_fit_edges_right", "_chk_for_longslit", "_synchronize", "_pca",
      "_trim_slits", "pixels", "done">>
PhaseRank(p) == CHOOSE i \in DOMAIN PhaseOrder : PhaseOrder[i] = p
\* The condition under which run() calls a phase, read after the step.
Required(q) ==
    IF q \in {"_maxgap_prep", "_maxgap_close"} THEN settings'.maxgap
    ELSE IF q = "_final_left_right" THEN ~Val(user_set')
    ELSE IF q \in {"_mslit_tcrude", "_mslit_sync"} THEN args'.armlsd
    ELSE IF q = "add_user_slits" THEN args'.add_user_slits
    ELSE IF q = "_ignore_orders" THEN args'.ignore_orders
    ELSE IF q \in {"_synchronize", "_pca", "_trim_slits"}
         THEN IsSome(lrminx') /\ ~_chk_for_longslit(Val(lrminx'))
    ELSE TRUE
NextInOrder ==
    /\ PhaseRank(pc') > PhaseRank(pc)
    /\ Required(pc')
    /\ \A i \in DOMAIN PhaseOrder :
          (PhaseRank(pc) < i /\ i < PhaseRank(pc')) => ~Required(PhaseOrder[i])

\* C22: every step of a run leads to the first phase after the current one that
\* run() calls under its conditions, in the order creation, matching, bracket
\* edges, (maxgap prep), assignment, (maxgap close), (crude trace, multi-slit
\* sync when armlsd), (user slits), (ignore orders), left fit, right fit, then
\* the longslit shortcut or synchronize, PCA, trim, and last the pixel mapping;
\* the maxgap steps run only when maxgap is configured, which the default
\* settings do not do.
C22_FixedPhaseOrder ==
    /\ [][(pc' # pc /\ pc' \notin {"fatal", "raised"}) => NextInOrder]_vars
    /\ [](settings = default_settings =>
             ~Ran("_maxgap_prep") /\ ~Ran("_maxgap_close"))
C22_Witness ==
    /\ pc = "done" /\ settings.maxgap
    /\ steps[5] = "_maxgap_prep" /\ steps[6] = "_assign_edges"
    /\ steps[7] = "_maxgap_close"
    /\ Ran("_mslit_tcrude") /\ Ran("add_user_slits") /\ Ran("_ignore_orders")
    /\ Ran("_trim_slits")

\* C23: the extrapord of the returned dictionary has one entry for every slit
\* of the returned lcen and rcen, also after the trimmer dropped slits.
C23_ExtrapordPerSlit ==
    IsSome(ret) =>
        /\ Len(Val(ret).extrapord) = Len(Val(ret).lcen)
        /\ Len(Val(ret).extrapord) = Len(Val(ret).rcen)

\* C24: reset_edgearr_ednum takes a finalized map into the labeled range (left
\* -k to -(ednum+k-1), right k to ednum+k-1, zeros kept), and a further call on
\* the map it has reset changes nothing, also for a map with edges of one side.
Labeled(m) ==
    [p \in Pix |-> IF m[p] < 0 THEN -(EdNum - m[p] - 1)
                   ELSE IF m[p] > 0 THEN EdNum + m[p] - 1 ELSE 0]
C24_ResetMapsAndIsIdempotent ==
    remap.n >= 1 => remap.arr = Labeled(remap.orig)

\* C25: from_files succeeds on every pair of artifacts that write produced,
\* whatever the tracer held when it was written: also a tracer whose tc_dict
\* was never set and one without lcen/rcen, edgearr or siglev.
C25_FromFilesSucceeds ==
    IsSome(loaded) => Val(loaded).status = "ok"

\* C26: a mask_to_pixel_coordinates call that raises leaves the cached slit
\* mask, grating, optical model and detector map as they were before the call,
\* on every error path.
C26_FailedQueryKeepsCaches ==
    [][(last'.call = "mask_to_pixel_coordinates" /\ last'.status # "ok") =>
         UNCHANGED <<slitmask, grating, optical_model, detector_map>>]_vars

\* C27: two tracers constructed without a settings argument have independent
\* settings: a change made through one, at any nesting depth, changes neither
\* what the other tracer reads nor what the module's default settings read.
C27_SettingsIndependent ==
    [][\A o \in Owners :
          (IsSome(dicts.top[o]) /\ o # dicts'.by) => View(dicts', o) = View(dicts, o)]_vars

\* What _maxgap_prep is said to do to the map, before and after the call.
PrepLifts(before, after) ==
    /\ \A p \in Pix : after[p] >= 0
    /\ \A p \in Pix : before[p] >= 0 => after[p] = before[p]
    /\ \A p, q \in Pix :
           (before[p] < 0 /\ before[q] < 0 /\ before[p] # before[q])
               => after[p] # after[q]
    /\ \A p, q \in Pix :
           (before[p] < 0 /\ before[q] > 0) => after[p] > before[q]

C29_DispangleOfSliderInUse ==
    fitstbl.added =>
        \A i \in DOMAIN fitstbl.rows :
            fitstbl.files[i].GRATEPOS \in {3, 4} =>
                fitstbl.rows[i].dispangle = header_wave(fitstbl.files[i])

\* Sections as rectangles of half-open ranges.
DataSec(c) == [x1 |-> c.sec.x1, x2 |-> c.sec.x2, y1 |-> c.sec.y1, y2 |-> c.sec.y2]
OscanSec(c) == [x1 |-> c.sec.o_x1, x2 |-> c.sec.o_x2, y1 |-> c.sec.o_y1, y2 |-> c.sec.o_y2]
Apart(a, b) == a.x2 <= b.x1 \/ b.x2 <= a.x1 \/ a.y2 <= b.y1 \/ b.y2 <= a.y1
Area(a) == (a.x2 - a.x1) * (a.y2 - a.y1)
RECURSIVE SumArea(_, _)
SumArea(placed, n) == IF n = 0 THEN 0 ELSE Area(DataSec(placed[n])) + SumArea(placed, n - 1)

\* C30: in a read of the whole mosaic the data sections of the chips are
\* pairwise disjoint and tile the 8192 x 8192 data area (chips 0-3 in the lower
\* half, 4-7 in the upper half, 2048 columns each), the overscan sections are
\* postpix columns wide, begin at column 8192, and are disjoint from each other
\* and from every data section; in a read of one detector the data section is
\* columns [0, 2048) and the overscan begins at column 2048 for every detector.
C30_MosaicSections ==
    LET P == mosaic.placed
        I == DOMAIN P
    IN  IF IsNone(mosaic.det)
        THEN /\ \A i, j \in I : i # j =>
                    /\ Apart(DataSec(P[i]), DataSec(P[j]))
                    /\ Apart(OscanSec(P[i]), OscanSec(P[j]))
             /\ \A i, j \in I : Apart(OscanSec(P[i]), DataSec(P[j]))
             /\ \A i \in I :
                    /\ P[i].sec.x1 = (P[i].tt % 4) * 2048 /\ P[i].sec.x2 = P[i].sec.x1 + 2048
                    /\ P[i].sec.y1 = (IF P[i].tt < 4 THEN 0 ELSE 4096)
                    /\ P[i].sec.y2 = P[i].sec.y1 + 4096
                    /\ P[i].sec.o_x2 - P[i].sec.o_x1 = mosaic.postpix
                    /\ P[i].sec.o_x1 >= 8192
                    /\ P[i].sec.o_y1 = P[i].sec.y1 /\ P[i].sec.o_y2 = P[i].sec.y2
             /\ (I # {}) => \E i \in I : P[i].sec.o_x1 = 8192
             /\ mosaic.done => /\ Len(P) = 8
                              /\ SumArea(P, Len(P)) = 8192 * 8192
        ELSE \A i \in I :
                /\ P[i].sec.x1 = 0 /\ P[i].sec.x2 = 2048
                /\ P[i].sec.o_x1 = 2048
                /\ P[i].sec.o_x2 = 2048 + mosaic.postpix
C30_Witness ==
    /\ IsNone(mosaic.det) /\ mosaic.done /\ Len(mosaic.placed) = 8
    /\ mosaic.postpix > 1

====
